---- MODULE Spec2Model ----
(***************************************************************************)
(* The network-change Reconciler of onos-config                            *)
(* (pkg/controller/change/network/controller.go) as a state machine over   *)
(* the NetworkChange store, the DeviceChange store and the reconciler's    *)
(* changeIndex field.  One Reconcile call is one step; any one of its      *)
(* store calls may fail (Spec) or find no DeviceChange (NotFoundSpec).     *)
(* FairSpec and HappySpec add the fairness of the work queue; PoolSpec     *)
(* splits canApplyChange into its steps for the workers of the pool.       *)
(***************************************************************************)
EXTENDS Integers, Sequences, FiniteSets, TLC

\* ------------------------------------------------------------------ bounds
\* How many NetworkChanges the operator submits.
MaxChanges == 2
\* How many DeviceChanges the DeviceChange store may come to hold.
MaxDeviceChanges == 3
\* The store calls of one Reconcile call that may be chosen to fail.
MaxStoreCalls == 8
\* How many NetworkChanges the operator submits to a reconciler with a worker
\* pool.
MaxPoolChanges == 3
\* How many workers of the pool run Reconcile at the same time.
Workers == 2

\* ------------------------------------------------------------- data model
Devices == {"d1", "d2"}
\* The device lists an operator submits.
DeviceLists == {<<"d1">>, <<"d2">>, <<"d1", "d2">>}

Phase_CHANGE == "CHANGE"
Phase_ROLLBACK == "ROLLBACK"
State_PENDING == "PENDING"
State_RUNNING == "RUNNING"
State_COMPLETE == "COMPLETE"
State_FAILED == "FAILED"
Reason_NONE == "NONE"
Reason_ERROR == "ERROR"

\* The empty ID ("") of a ref whose DeviceChange has not been created.
NoID == 0

VARIABLES
    nc,          \* the NetworkChange store: nc[i] is the change with Index i
    dc,          \* the DeviceChange store: dc[k] is the change with ID k
    changeIndex, \* Reconciler.changeIndex
    last,        \* the last operation and, for Reconcile, what it returned
    work         \* work[id]: where the worker running canApplyChange for id is

vars == <<nc, dc, changeIndex, last, work>>

\* ------------------------------------------------------------ store calls
\* A run of Reconcile: the stores, changeIndex, the store calls made so far
\* (n), the call chosen to fail (f, 0 for none), the call chosen to find
\* nothing (m, 0 for none), the kind of the call that failed or found nothing,
\* and whether the run ended in a panic.
Start(ncv, dcv, ci, f) ==
    [nc |-> ncv, dc |-> dcv, ci |-> ci, n |-> 0, f |-> f, m |-> 0,
     failed |-> "none", panic |-> FALSE]

\* A run whose m-th store call, a Get of a DeviceChange, returns (nil, nil).
StartMissing(ncv, dcv, ci, m) == [Start(ncv, dcv, ci, 0) EXCEPT !.m = m]

\* The next store call is the one that fails.
Fails(s) == s.f # 0 /\ s.n + 1 = s.f

\* One store call of the given kind is made.
Tick(s, kind) ==
    [s EXCEPT !.n = @ + 1, !.failed = IF Fails(s) THEN kind ELSE @]

\* The next store call is the one that finds nothing.
Missing(s) == s.m # 0 /\ s.n + 1 = s.m

\* deviceChanges.Get returns (nil, nil).
Miss(s) == [s EXCEPT !.n = @ + 1, !.failed = "NotFound"]

\* The nil *devicetypes.Change.
Nil == [ncid |-> 0, dev |-> "nil", phase |-> "nil", state |-> "nil"]

\* A field of a nil *devicetypes.Change is read: the goroutine panics.  A
\* panicking function returns nothing; its callers unwind as they do on an
\* error, and Op tells the two apart.
Panic(s) == [s EXCEPT !.panic = TRUE]

\* What a (bool, error) function returns, with the run so far.
R(s, ok, err) == [s |-> s, ok |-> ok, err |-> err]

\* devicechangestore.Create: the store assigns the next ID.
CreateDeviceChange(s, id, dev) ==
    [Tick(s, "Create") EXCEPT !.dc = Append(@,
        [ncid |-> id, dev |-> dev, phase |-> Phase_CHANGE, state |-> State_PENDING])]

\* networkchangestore.Update of the in-memory copy c of change id.
UpdateNetworkChange(s, id, c) == [Tick(s, "Update") EXCEPT !.nc[id] = c]

\* devicechangestore.Update of the in-memory copy d of device change k.
UpdateDeviceChange(s, k, d) == [Tick(s, "Update") EXCEPT !.dc[k] = d]

\* ------------------------------------------------- ensureDeviceChanges
RECURSIVE ensureDeviceChangesLoop(_, _, _, _, _)
ensureDeviceChangesLoop(s, id, c, i, updated) ==
    IF i > Len(c.changes)
    THEN [s |-> s, c |-> c, updated |-> updated, err |-> FALSE]
    ELSE IF c.changes[i].id = NoID
    THEN IF Fails(s)
         THEN [s |-> Tick(s, "Create"), c |-> c, updated |-> FALSE, err |-> TRUE]
         ELSE LET s1 == CreateDeviceChange(s, id, c.changes[i].dev)
                  c1 == [c EXCEPT !.changes[i].id = Len(s1.dc)]
              IN  ensureDeviceChangesLoop(s1, id, c1, i + 1, TRUE)
    ELSE ensureDeviceChangesLoop(s, id, c, i + 1, updated)

\* Returns [s, c, ok, err]: c is the in-memory change with the refs filled in.
ensureDeviceChanges(s, id, c) ==
    LET l == ensureDeviceChangesLoop(s, id, c, 1, FALSE)
    IN  IF l.err THEN [s |-> l.s, c |-> l.c, ok |-> FALSE, err |-> TRUE]
        ELSE IF l.updated
        THEN IF Fails(l.s)
             THEN [s |-> Tick(l.s, "Update"), c |-> l.c, ok |-> FALSE, err |-> TRUE]
             ELSE [s |-> UpdateNetworkChange(l.s, id, l.c), c |-> l.c,
                   ok |-> TRUE, err |-> FALSE]
        ELSE [s |-> l.s, c |-> l.c, ok |-> FALSE, err |-> FALSE]

\* ------------------------------------------------- isIntersectingChange
\* A slip in the comparison: a ref of config is compared with itself.
isIntersectingSelf(config, history) ==
    \E i \in DOMAIN config.changes : \E j \in DOMAIN history.changes :
        config.changes[i].dev = config.changes[i].dev

isIntersectingChange(config, history) ==
    \E i \in DOMAIN config.changes : \E j \in DOMAIN history.changes :
        config.changes[i].dev = history.changes[j].dev

\* ------------------------------------------------------- canApplyChange
RECURSIVE canApplyChangeLoop(_, _, _, _, _)
canApplyChangeLoop(s, c, cidx, index, sequential) ==
    IF index >= cidx THEN R(s, TRUE, FALSE)
    ELSE IF Fails(s) THEN R(Tick(s, "GetByIndex"), FALSE, TRUE)
    ELSE LET s1 == Tick(s, "GetByIndex")
         IN  IF index \in DOMAIN s1.nc
             THEN LET priorChange == s1.nc[index]
                  IN  IF priorChange.state \in {State_PENDING, State_RUNNING}
                      THEN IF isIntersectingChange(c, priorChange)
                           THEN R(s1, FALSE, FALSE)
                           ELSE canApplyChangeLoop(s1, c, cidx, index + 1, FALSE)
                      ELSE IF sequential
                           THEN canApplyChangeLoop([s1 EXCEPT !.ci = @ + 1],
                                                   c, cidx, index + 1, sequential)
                           ELSE canApplyChangeLoop(s1, c, cidx, index + 1, sequential)
             ELSE canApplyChangeLoop(s1, c, cidx, index + 1, sequential)

\* canApplyChange with changeIndex advanced over every prior change found,
\* before its state is looked at.
RECURSIVE canApplyChangeEagerLoop(_, _, _, _)
canApplyChangeEagerLoop(s, c, cidx, index) ==
    IF index >= cidx THEN R(s, TRUE, FALSE)
    ELSE IF Fails(s) THEN R(Tick(s, "GetByIndex"), FALSE, TRUE)
    ELSE LET s1 == Tick(s, "GetByIndex")
         IN  IF index \in DOMAIN s1.nc
             THEN LET s2 == [s1 EXCEPT !.ci = @ + 1]
                      priorChange == s2.nc[index]
                  IN  IF /\ priorChange.state \in {State_PENDING, State_RUNNING}
                         /\ isIntersectingChange(c, priorChange)
                      THEN R(s2, FALSE, FALSE)
                      ELSE canApplyChangeEagerLoop(s2, c, cidx, index + 1)
             ELSE canApplyChangeEagerLoop(s1, c, cidx, index + 1)

canApplyChangeEager(s, id, c) == canApplyChangeEagerLoop(s, c, id, s.ci)

canApplyChange(s, id, c) == canApplyChangeLoop(s, c, id, s.ci, TRUE)

\* ----------------------------------------------- reconcilePendingChange
reconcilePendingChange(s, id, c) ==
    LET a == canApplyChange(s, id, c)
    IN  IF a.err THEN R(a.s, FALSE, TRUE)
        ELSE IF ~a.ok THEN R(a.s, FALSE, FALSE)
        ELSE IF Fails(a.s) THEN R(Tick(a.s, "Update"), FALSE, TRUE)
        ELSE R(UpdateNetworkChange(a.s, id, [c EXCEPT !.state = State_RUNNING]),
               TRUE, FALSE)

\* ----------------------------------------------------- getDeviceChanges
\* Returns [s, list, err]: list[i] is the in-memory copy [k, d] of the
\* DeviceChange of ref i.
RECURSIVE getDeviceChangesLoop(_, _, _, _)
getDeviceChangesLoop(s, c, i, list) ==
    IF i > Len(c.changes) THEN [s |-> s, list |-> list, err |-> FALSE]
    ELSE IF Fails(s) THEN [s |-> Tick(s, "Get"), list |-> <<>>, err |-> TRUE]
    ELSE IF Missing(s)
    THEN getDeviceChangesLoop(Miss(s), c, i + 1,
                              Append(list, [k |-> c.changes[i].id, d |-> Nil]))
    ELSE LET s1 == Tick(s, "Get")
             k == c.changes[i].id
         IN  getDeviceChangesLoop(s1, c, i + 1, Append(list, [k |-> k, d |-> s1.dc[k]]))

getDeviceChanges(s, c) == getDeviceChangesLoop(s, c, 1, <<>>)

\* ------------------------------------------- ensureDeviceChangesRunning
\* Returns [s, list, ok, err].
RECURSIVE ensureDeviceChangesRunningLoop(_, _, _, _)
ensureDeviceChangesRunningLoop(s, list, i, updated) ==
    IF i > Len(list) THEN [s |-> s, list |-> list, ok |-> updated, err |-> FALSE]
    ELSE IF list[i].d = Nil
    THEN [s |-> Panic(s), list |-> list, ok |-> FALSE, err |-> TRUE]
    ELSE IF list[i].d.state = State_PENDING
    THEN LET d1 == [list[i].d EXCEPT !.state = State_RUNNING]
             list1 == [list EXCEPT ![i].d = d1]
         IN  IF Fails(s)
             THEN [s |-> Tick(s, "Update"), list |-> list1, ok |-> FALSE, err |-> TRUE]
             ELSE ensureDeviceChangesRunningLoop(
                      UpdateDeviceChange(s, list[i].k, d1), list1, i + 1, TRUE)
    ELSE ensureDeviceChangesRunningLoop(s, list, i + 1, updated)

\* A slip in the condition: a PENDING DeviceChange is left as it is.
ensureDeviceChangesRunningSkip(s, list) ==
    [s |-> s, list |-> list, ok |-> FALSE, err |-> FALSE]

ensureDeviceChangesRunning(s, list) == ensureDeviceChangesRunningLoop(s, list, 1, FALSE)

\* ------------------------------------------------ isDeviceChangesComplete
\* A slip in the loop: one COMPLETE DeviceChange is enough.
isDeviceChangesAnyComplete(list) ==
    \E i \in DOMAIN list : list[i].d.state = State_COMPLETE

isDeviceChangesComplete(list) ==
    \A i \in DOMAIN list : list[i].d.state = State_COMPLETE

\* -------------------------------------------------- isDeviceChangesFailed
isDeviceChangesFailed(list) ==
    \E i \in DOMAIN list : list[i].d.state = State_FAILED

\* ----------------------------------- ensureDeviceChangeRollbacksRunning
RECURSIVE ensureDeviceChangeRollbacksRunningLoop(_, _, _, _)
ensureDeviceChangeRollbacksRunningLoop(s, list, i, updated) ==
    IF i > Len(list) THEN [s |-> s, list |-> list, ok |-> updated, err |-> FALSE]
    ELSE IF list[i].d.phase = Phase_CHANGE /\ list[i].d.state # State_FAILED
    THEN LET d1 == [list[i].d EXCEPT !.phase = Phase_ROLLBACK, !.state = State_RUNNING]
             list1 == [list EXCEPT ![i].d = d1]
         IN  IF Fails(s)
             THEN [s |-> Tick(s, "Update"), list |-> list1, ok |-> FALSE, err |-> TRUE]
             ELSE ensureDeviceChangeRollbacksRunningLoop(
                      UpdateDeviceChange(s, list[i].k, d1), list1, i + 1, TRUE)
    ELSE ensureDeviceChangeRollbacksRunningLoop(s, list, i + 1, updated)

ensureDeviceChangeRollbacksRunning(s, list) ==
    ensureDeviceChangeRollbacksRunningLoop(s, list, 1, FALSE)

\* isDeviceChangeRollbacksComplete taking every rollback that has not FAILED
\* for a complete one.
isDeviceChangeRollbacksNotFailed(list) ==
    \A i \in DOMAIN list :
        ~(list[i].d.phase = Phase_ROLLBACK /\ list[i].d.state = State_FAILED)

\* ---------------------------------------- isDeviceChangeRollbacksComplete
isDeviceChangeRollbacksComplete(list) ==
    \A i \in DOMAIN list :
        ~(list[i].d.phase = Phase_ROLLBACK /\ list[i].d.state # State_COMPLETE)

\* ----------------------------------------------- reconcileRunningChange
\* The rollback-on-failure branch (lines 189-206), reached with the device
\* changes read and none of them PENDING.
reconcileFailedChange(s, id, c, list) ==
    LET b == ensureDeviceChangeRollbacksRunning(s, list)
    IN  IF b.ok \/ b.err THEN R(b.s, b.ok, b.err)
        ELSE IF isDeviceChangeRollbacksComplete(b.list)
        THEN IF Fails(b.s) THEN R(Tick(b.s, "Update"), FALSE, TRUE)
             ELSE R(UpdateNetworkChange(b.s, id,
                        [c EXCEPT !.state = State_PENDING, !.reason = Reason_ERROR]),
                    TRUE, FALSE)
        ELSE R(b.s, TRUE, FALSE)

reconcileRunningChange(s, id, c) ==
    LET g == getDeviceChanges(s, c)
    IN  IF g.err THEN R(g.s, FALSE, TRUE)
        ELSE LET e == ensureDeviceChangesRunning(g.s, g.list)
             IN  IF e.ok \/ e.err THEN R(e.s, e.ok, e.err)
                 ELSE IF isDeviceChangesComplete(e.list)
                 THEN IF Fails(e.s) THEN R(Tick(e.s, "Update"), FALSE, TRUE)
                      ELSE R(UpdateNetworkChange(e.s, id,
                                 [c EXCEPT !.state = State_COMPLETE]), TRUE, FALSE)
                 ELSE IF isDeviceChangesFailed(e.list)
                 THEN reconcileFailedChange(e.s, id, c, e.list)
                 ELSE R(e.s, TRUE, FALSE)

\* ------------------------------------------------------- reconcileChange
reconcileChange(s, id, c) ==
    CASE c.state = State_PENDING -> reconcilePendingChange(s, id, c)
      [] c.state = State_RUNNING -> reconcileRunningChange(s, id, c)
      [] OTHER -> R(s, TRUE, FALSE)

\* ------------------------------------------------- ensureDeviceRollbacks
RECURSIVE ensureDeviceRollbacksLoop(_, _, _, _)
ensureDeviceRollbacksLoop(s, c, i, updated) ==
    IF i > Len(c.changes) THEN R(s, updated, FALSE)
    ELSE IF Fails(s) THEN R(Tick(s, "Get"), FALSE, TRUE)
    ELSE IF Missing(s) THEN R(Panic(Miss(s)), FALSE, TRUE)
    ELSE LET s1 == Tick(s, "Get")
             k == c.changes[i].id
             deviceChange == s1.dc[k]
         IN  IF deviceChange.phase # Phase_ROLLBACK
             THEN IF Fails(s1) THEN R(Tick(s1, "Update"), FALSE, TRUE)
                  ELSE ensureDeviceRollbacksLoop(
                           UpdateDeviceChange(s1, k, [deviceChange EXCEPT
                               !.phase = Phase_ROLLBACK, !.state = State_PENDING]),
                           c, i + 1, TRUE)
             ELSE ensureDeviceRollbacksLoop(s1, c, i + 1, updated)

ensureDeviceRollbacks(s, c) == ensureDeviceRollbacksLoop(s, c, 1, FALSE)

\* ------------------------------------------------------ canApplyRollback
RECURSIVE canApplyRollbackLoop(_, _, _, _)
canApplyRollbackLoop(s, c, index, lastIndex) ==
    IF index > lastIndex THEN R(s, TRUE, FALSE)
    ELSE IF Fails(s) THEN R(Tick(s, "GetByIndex"), FALSE, TRUE)
    ELSE LET s1 == Tick(s, "GetByIndex")
         IN  IF /\ index \in DOMAIN s1.nc
                /\ isIntersectingChange(c, s1.nc[index])
                /\ s1.nc[index].state # State_COMPLETE
                /\ s1.nc[index].state # State_FAILED
             THEN R(s1, FALSE, FALSE)
             ELSE canApplyRollbackLoop(s1, c, index + 1, lastIndex)

\* canApplyRollback stopping one short of the last index.
canApplyRollbackShort(s, id, c) ==
    IF Fails(s) THEN R(Tick(s, "LastIndex"), FALSE, TRUE)
    ELSE LET s1 == Tick(s, "LastIndex")
         IN  canApplyRollbackLoop(s1, c, id + 1, Len(s1.nc) - 1)

canApplyRollback(s, id, c) ==
    IF Fails(s) THEN R(Tick(s, "LastIndex"), FALSE, TRUE)
    ELSE LET s1 == Tick(s, "LastIndex")
         IN  canApplyRollbackLoop(s1, c, id + 1, Len(s1.nc))

\* --------------------------------------------- reconcilePendingRollback
reconcilePendingRollback(s, id, c) ==
    LET a == canApplyRollback(s, id, c)
    IN  IF a.err THEN R(a.s, FALSE, TRUE)
        ELSE IF ~a.ok THEN R(a.s, FALSE, FALSE)
        ELSE IF Fails(a.s) THEN R(Tick(a.s, "Update"), FALSE, TRUE)
        ELSE R(UpdateNetworkChange(a.s, id, [c EXCEPT !.state = State_RUNNING]),
               TRUE, FALSE)

\* ----------------------------------------- ensureDeviceRollbacksRunning
RECURSIVE ensureDeviceRollbacksRunningLoop(_, _, _, _)
ensureDeviceRollbacksRunningLoop(s, c, i, updated) ==
    IF i > Len(c.changes) THEN R(s, updated, FALSE)
    ELSE IF Fails(s) THEN R(Tick(s, "Get"), FALSE, TRUE)
    ELSE IF Missing(s) THEN R(Panic(Miss(s)), FALSE, TRUE)
    ELSE LET s1 == Tick(s, "Get")
             k == c.changes[i].id
             deviceChange == s1.dc[k]
         IN  IF deviceChange.state = State_PENDING
             THEN IF Fails(s1) THEN R(Tick(s1, "Update"), FALSE, TRUE)
                  ELSE ensureDeviceRollbacksRunningLoop(
                           UpdateDeviceChange(s1, k,
                               [deviceChange EXCEPT !.state = State_RUNNING]),
                           c, i + 1, TRUE)
             ELSE ensureDeviceRollbacksRunningLoop(s1, c, i + 1, updated)

ensureDeviceRollbacksRunning(s, c) == ensureDeviceRollbacksRunningLoop(s, c, 1, FALSE)

\* ---------------------------------------------------- isRollbackComplete
\* Returns R(s, complete, err).
RECURSIVE isRollbackCompleteLoop(_, _, _, _)
isRollbackCompleteLoop(s, c, i, complete) ==
    IF i > Len(c.changes) THEN R(s, complete = Len(c.changes), FALSE)
    ELSE IF Fails(s) THEN R(Tick(s, "Get"), FALSE, TRUE)
    ELSE IF Missing(s) THEN R(Panic(Miss(s)), FALSE, TRUE)
    ELSE LET s1 == Tick(s, "Get")
             deviceChange == s1.dc[c.changes[i].id]
         IN  isRollbackCompleteLoop(s1, c, i + 1,
                 IF deviceChange.state = State_COMPLETE THEN complete + 1 ELSE complete)

isRollbackComplete(s, c) == isRollbackCompleteLoop(s, c, 1, 0)

\* --------------------------------------------- reconcileRunningRollback
\* The final write (lines 377-381): a failed Update returns (false, nil).
completeRollback(s, id, c) ==
    IF Fails(s) THEN R(Tick(s, "Update"), FALSE, FALSE)
    ELSE R(UpdateNetworkChange(s, id, [c EXCEPT !.state = State_COMPLETE]), TRUE, FALSE)

reconcileRunningRollback(s, id, c) ==
    LET e == ensureDeviceRollbacksRunning(s, c)
    IN  IF e.ok \/ e.err THEN R(e.s, e.ok, e.err)
        ELSE LET k == isRollbackComplete(e.s, c)
             IN  IF k.err THEN R(k.s, FALSE, TRUE)
                 ELSE IF ~k.ok THEN R(k.s, TRUE, FALSE)
                 ELSE completeRollback(k.s, id, c)

\* The state switch of reconcileRollback without its default case: any state
\* but RUNNING is handled as PENDING.
reconcileRollbackStateNoDefault(s, id, c) ==
    IF c.state = State_RUNNING THEN reconcileRunningRollback(s, id, c)
    ELSE reconcilePendingRollback(s, id, c)

\* ----------------------------------------------------- reconcileRollback
reconcileRollbackState(s, id, c) ==
    CASE c.state = State_PENDING -> reconcilePendingRollback(s, id, c)
      [] c.state = State_RUNNING -> reconcileRunningRollback(s, id, c)
      [] OTHER -> R(s, TRUE, FALSE)

reconcileRollback(s, id, c) ==
    LET u == ensureDeviceRollbacks(s, c)
    IN  IF u.ok \/ u.err THEN R(u.s, u.ok, u.err)
        ELSE reconcileRollbackState(u.s, id, c)

\* -------------------------------------------------------------- Reconcile
\* One whole Reconcile(id) call from the run state s.
ReconcileRun(s, id) ==
    IF Fails(s) THEN R(Tick(s, "Get"), FALSE, TRUE)
    ELSE LET s1 == Tick(s, "Get")
         IN  IF id \notin DOMAIN s1.nc THEN R(s1, TRUE, FALSE)
             ELSE LET e == ensureDeviceChanges(s1, id, s1.nc[id])
                  IN  IF e.ok \/ e.err THEN R(e.s, e.ok, e.err)
                      ELSE CASE e.c.phase = Phase_CHANGE -> reconcileChange(e.s, id, e.c)
                             [] e.c.phase = Phase_ROLLBACK -> reconcileRollback(e.s, id, e.c)
                             [] OTHER -> R(e.s, TRUE, FALSE)

\* ================================================================ actions
\* What last records of a Reconcile(id) call that returned r: the result
\* (ok, err), the kind of store call that failed ("read" for Get, GetByIndex
\* and LastIndex) and whether the call changed a store.
Kind(failed) ==
    IF failed \in {"Get", "GetByIndex", "LastIndex"} THEN "read" ELSE failed

Op(id, r) ==
    [op |-> "Reconcile", id |-> id, ok |-> r.ok, err |-> r.err /\ ~r.s.panic,
     failed |-> Kind(r.s.failed), wrote |-> (r.s.nc # nc \/ r.s.dc # dc),
     panic |-> r.s.panic]

\* What last records of any other operation.
Other ==
    [op |-> "other", id |-> 0, ok |-> TRUE, err |-> FALSE, failed |-> "none",
     wrote |-> TRUE, panic |-> FALSE]

\* No worker is inside canApplyChange.
Idle == [pc |-> "idle", index |-> 0, sequential |-> TRUE]

Init ==
    /\ nc = <<>>
    /\ dc = <<>>
    /\ changeIndex = 0
    /\ last = Other
    /\ work = [id \in 1..MaxPoolChanges |-> Idle]

\* The operator submits a NetworkChange for the devices devs: the store
\* assigns the next Index; the change starts in (CHANGE, PENDING) with no ref
\* materialized.
SubmitNetworkChange(devs) ==
    /\ nc' = Append(nc, [phase |-> Phase_CHANGE, state |-> State_PENDING,
                         reason |-> Reason_NONE,
                         changes |-> [i \in DOMAIN devs |-> [dev |-> devs[i], id |-> NoID]]])
    /\ last' = Other
    /\ UNCHANGED <<dc, changeIndex, work>>

CreateNetworkChange(devs) ==
    /\ Len(nc) < MaxChanges
    /\ SubmitNetworkChange(devs)

\* The operator requests the rollback of a COMPLETE NetworkChange.
RollbackNetworkChange(i) ==
    /\ i \in DOMAIN nc
    /\ nc[i].phase = Phase_CHANGE
    /\ nc[i].state = State_COMPLETE
    /\ nc' = [nc EXCEPT ![i].phase = Phase_ROLLBACK, ![i].state = State_PENDING]
    /\ last' = Other
    /\ UNCHANGED <<dc, changeIndex, work>>

\* The device controller ends a RUNNING DeviceChange with the given state.
DeviceChangeDone(k, state) ==
    /\ k \in DOMAIN dc
    /\ dc[k].state = State_RUNNING
    /\ dc' = [dc EXCEPT ![k].state = state]
    /\ last' = Other
    /\ UNCHANGED <<nc, changeIndex, work>>

\* The queue runs Reconcile(id); its f-th store call fails (f = 0: none does).
Reconcile(id, f) ==
    LET r == ReconcileRun(Start(nc, dc, changeIndex, f), id)
    IN  /\ f = 0 \/ r.s.failed # "none"
        /\ Len(r.s.dc) <= MaxDeviceChanges
        /\ nc' = r.s.nc
        /\ dc' = r.s.dc
        /\ changeIndex' = r.s.ci
        /\ last' = Op(id, r)
        /\ UNCHANGED work

\* The queue runs Reconcile(id); its m-th store call is a Get of a DeviceChange
\* that returns (nil, nil).  After a panic the process has died and a new
\* Reconciler starts with changeIndex zero, unless the caller recovered.
ReconcileNotFound(id, m) ==
    LET r == ReconcileRun(StartMissing(nc, dc, changeIndex, m), id)
    IN  /\ r.s.failed = "NotFound"
        /\ nc' = r.s.nc
        /\ dc' = r.s.dc
        /\ changeIndex' \in (IF r.s.panic THEN {r.s.ci, 0} ELSE {r.s.ci})
        /\ last' = Op(id, r)
        /\ UNCHANGED work

\* The leader fails over: NewController builds a Reconciler whose changeIndex
\* is zero.
Restart ==
    /\ changeIndex' = 0
    /\ last' = Other
    /\ UNCHANGED <<nc, dc, work>>

Next ==
    \/ \E devs \in DeviceLists : CreateNetworkChange(devs)
    \/ \E i \in 1..MaxChanges : RollbackNetworkChange(i)
    \/ \E k \in 1..MaxDeviceChanges : \E state \in {State_COMPLETE, State_FAILED} :
           DeviceChangeDone(k, state)
    \/ \E id \in 1..MaxChanges : \E f \in 0..MaxStoreCalls : Reconcile(id, f)
    \/ Restart

Spec == Init /\ [][Next]_vars

\* ------------------------------------------------------------- the queue
\* Reconcile(id) with no failing store call would change the state: the
\* meaning of ENABLED <<Reconcile(id, 0)>>_vars.
ReconcileEnabled(id) ==
    LET r == ReconcileRun(Start(nc, dc, changeIndex, 0), id)
    IN  /\ Len(r.s.dc) <= MaxDeviceChanges
        /\ <<r.s.nc, r.s.dc, r.s.ci, Op(id, r)>> # <<nc, dc, changeIndex, last>>

\* The work queue requeues an id whose Reconcile returned (false, nil) or an
\* error, and the watchers enqueue an id at every write to its NetworkChange or
\* to one of its DeviceChanges: Reconcile(id) is weakly fair (WF_vars written
\* out, with ReconcileEnabled for its ENABLED).
QueueFairness ==
    \A id \in 1..MaxChanges :
        \/ []<>(~ReconcileEnabled(id))
        \/ []<><<Reconcile(id, 0)>>_vars

\* The device controller eventually ends every RUNNING DeviceChange.
Fairness ==
    /\ QueueFairness
    /\ \A k \in 1..MaxDeviceChanges :
           WF_vars(\E state \in {State_COMPLETE, State_FAILED} : DeviceChangeDone(k, state))

\* The refs of the NetworkChanges submitted so far, with those of devs, are no
\* more than the DeviceChange store may hold.
RECURSIVE Refs(_)
Refs(i) == IF i = 0 THEN 0 ELSE Len(nc[i].changes) + Refs(i - 1)
RefsFit(devs) == Refs(Len(nc)) + Len(devs) <= MaxDeviceChanges

\* The runs in which no store call fails and the leader stays.
FairNext ==
    \/ \E devs \in DeviceLists : RefsFit(devs) /\ CreateNetworkChange(devs)
    \/ \E i \in 1..MaxChanges : RollbackNetworkChange(i)
    \/ \E k \in 1..MaxDeviceChanges : \E state \in {State_COMPLETE, State_FAILED} :
           DeviceChangeDone(k, state)
    \/ \E id \in 1..MaxChanges : Reconcile(id, 0)

FairSpec == Init /\ [][FairNext]_vars /\ Fairness

\* The runs in which no store call fails and a Get of a DeviceChange may find
\* nothing.
NotFoundNext ==
    \/ \E devs \in DeviceLists : RefsFit(devs) /\ CreateNetworkChange(devs)
    \/ \E i \in 1..MaxChanges : RollbackNetworkChange(i)
    \/ \E k \in 1..MaxDeviceChanges : \E state \in {State_COMPLETE, State_FAILED} :
           DeviceChangeDone(k, state)
    \/ \E id \in 1..MaxChanges : Reconcile(id, 0)
    \/ \E id \in 1..MaxChanges : \E m \in 1..MaxStoreCalls : ReconcileNotFound(id, m)

NotFoundSpec == Init /\ [][NotFoundNext]_vars

\* --------------------------------------------------------- the worker pool
\* The queue hands distinct ids to the workers of the pool, which run Reconcile
\* on the one Reconciler value at the same time.  The calls interleave at the
\* steps of canApplyChange: the read of changeIndex, each GetByIndex call, each
\* increment of changeIndex and the final Update.  Everything else of a
\* Reconcile call is one step.
InFlight == Cardinality({id \in DOMAIN work : work[id] # Idle})

\* The loop test index < change.Index.
LoopPc(id, index) == IF index < id THEN "scan" ELSE "update"

\* What last records of a Reconcile call that went through canApplyChange.
PoolOp(id, ok) ==
    [op |-> "Reconcile", id |-> id, ok |-> ok, err |-> FALSE, failed |-> "none",
     wrote |-> ok, panic |-> FALSE]

\* A worker takes id: Reconcile reads the NetworkChange, finds it in
\* (CHANGE, PENDING) with every ref materialized, and canApplyChange starts
\* its loop at the changeIndex it reads.
BeginCanApplyChange(id) ==
    /\ work[id] = Idle
    /\ InFlight < Workers
    /\ id \in DOMAIN nc
    /\ nc[id].phase = Phase_CHANGE /\ nc[id].state = State_PENDING
    /\ \A r \in DOMAIN nc[id].changes : nc[id].changes[r].id # NoID
    /\ work' = [work EXCEPT ![id] = [pc |-> LoopPc(id, changeIndex),
                                     index |-> changeIndex, sequential |-> TRUE]]
    /\ UNCHANGED <<nc, dc, changeIndex, last>>

\* One GetByIndex call of the loop and the tests on its result.
GetByIndex(id) ==
    LET w == work[id]
        next == [w EXCEPT !.index = @ + 1, !.pc = LoopPc(id, w.index + 1)]
    IN  /\ w.pc = "scan"
        /\ IF w.index \notin DOMAIN nc
           THEN work' = [work EXCEPT ![id] = next] /\ UNCHANGED last
           ELSE IF nc[w.index].state \in {State_PENDING, State_RUNNING}
           THEN IF isIntersectingChange(nc[id], nc[w.index])
                THEN work' = [work EXCEPT ![id] = Idle] /\ last' = PoolOp(id, FALSE)
                ELSE /\ work' = [work EXCEPT ![id] = [next EXCEPT !.sequential = FALSE]]
                     /\ UNCHANGED last
           ELSE IF w.sequential
           THEN work' = [work EXCEPT ![id] = [w EXCEPT !.pc = "inc"]] /\ UNCHANGED last
           ELSE work' = [work EXCEPT ![id] = next] /\ UNCHANGED last
        /\ UNCHANGED <<nc, dc, changeIndex>>

\* r.changeIndex++
IncrementChangeIndex(id) ==
    LET w == work[id]
    IN  /\ w.pc = "inc"
        /\ changeIndex' = changeIndex + 1
        /\ work' = [work EXCEPT ![id] = [w EXCEPT !.index = @ + 1,
                                                  !.pc = LoopPc(id, w.index + 1)]]
        /\ UNCHANGED <<nc, dc, last>>

\* canApplyChange returned true: reconcilePendingChange sets the change RUNNING.
AdmitChange(id) ==
    /\ work[id].pc = "update"
    /\ nc' = [nc EXCEPT ![id].state = State_RUNNING]
    /\ work' = [work EXCEPT ![id] = Idle]
    /\ last' = PoolOp(id, TRUE)
    /\ UNCHANGED <<dc, changeIndex>>

\* No store call fails, no rollback is requested, the leader stays.
PoolNext ==
    \/ \E devs \in DeviceLists :
           RefsFit(devs) /\ Len(nc) < MaxPoolChanges /\ SubmitNetworkChange(devs)
    \/ \E k \in 1..MaxDeviceChanges : \E state \in {State_COMPLETE, State_FAILED} :
           DeviceChangeDone(k, state)
    \/ \E id \in 1..MaxPoolChanges :
           work[id] = Idle /\ InFlight < Workers /\ Reconcile(id, 0)
    \/ \E id \in 1..MaxPoolChanges : BeginCanApplyChange(id)
    \/ \E id \in 1..MaxPoolChanges : GetByIndex(id)
    \/ \E id \in 1..MaxPoolChanges : IncrementChangeIndex(id)
    \/ \E id \in 1..MaxPoolChanges : AdmitChange(id)

PoolSpec == Init /\ [][PoolNext]_vars

\* The happy path: no store call fails, the device controller ends every
\* RUNNING DeviceChange with COMPLETE, and the operator requests no rollback.
HappyFairness ==
    /\ QueueFairness
    /\ \A k \in 1..MaxDeviceChanges : WF_vars(DeviceChangeDone(k, State_COMPLETE))

HappyNext ==
    \/ \E devs \in DeviceLists : RefsFit(devs) /\ CreateNetworkChange(devs)
    \/ \E k \in 1..MaxDeviceChanges : DeviceChangeDone(k, State_COMPLETE)
    \/ \E id \in 1..MaxChanges : Reconcile(id, 0)

HappySpec == Init /\ [][HappyNext]_vars /\ HappyFairness

\* ============================================================= properties
Terminal(c) == c.state \in {State_COMPLETE, State_FAILED}
Active(c) == c.state \in {State_PENDING, State_RUNNING}
Materialized(c) == \A r \in DOMAIN c.changes : c.changes[r].id # NoID
\* The DeviceChanges the refs of c name.
Children(c) == {c.changes[r].id : r \in DOMAIN c.changes} \ {NoID}
\* The last step was a Reconcile(id) call.
Reconciled(id) == last.op = "Reconcile" /\ last.id = id
\* Reconcile(id) without a store failure, from the stores ncv, dcv.
Once(ncv, dcv, ci, id) == ReconcileRun(Start(ncv, dcv, ci, 0), id).s

\* C1: for overlapping NetworkChanges i < j, the reconciler never moves j from
\* (CHANGE, PENDING) to RUNNING while i is PENDING or RUNNING, whatever i's
\* phase and whatever changeIndex is.
C1_NoAdmissionPastActiveOverlap ==
    [][\A i \in DOMAIN nc : \A j \in DOMAIN nc :
          ( /\ i < j
            /\ isIntersectingChange(nc[i], nc[j])
            /\ nc[j].phase = Phase_CHANGE
            /\ nc[j].state = State_PENDING
            /\ nc'[j].state = State_RUNNING )
          => ~Active(nc[i])]_vars

\* A later NetworkChange that shares a device with c and is neither COMPLETE
\* nor FAILED.
RollbackBlocked(c) ==
    \E f \in DOMAIN nc :
        f > c /\ isIntersectingChange(nc[c], nc[f]) /\ ~Terminal(nc[f])

InRollbackPending(c) ==
    nc[c].phase = Phase_ROLLBACK /\ nc[c].state = State_PENDING

\* C2 as stated: c leaves (ROLLBACK, PENDING) for RUNNING only when no later
\* overlapping change is PENDING or RUNNING; while one is, c stays in
\* (ROLLBACK, PENDING) and Reconcile(c) returns (false, nil).
C2_RollbackBlockedReturnsFalse ==
    [][\A c \in DOMAIN nc :
          (InRollbackPending(c) /\ RollbackBlocked(c))
          => /\ nc'[c].phase = Phase_ROLLBACK /\ nc'[c].state = State_PENDING
             /\ (last'.op = "Reconcile" /\ last'.id = c)
                  => (~last'.ok /\ ~last'.err)]_vars

\* C2 amended: c leaves (ROLLBACK, PENDING) only when no later overlapping
\* change is PENDING or RUNNING; while one is, c stays in (ROLLBACK, PENDING),
\* and a Reconcile(c) call in which no store call fails and which finds every
\* child already in Phase = ROLLBACK returns (false, nil).
C2_RollbackWaitsForLaterOverlap ==
    [][\A c \in DOMAIN nc :
          (InRollbackPending(c) /\ RollbackBlocked(c))
          => /\ nc'[c].phase = Phase_ROLLBACK /\ nc'[c].state = State_PENDING
             /\ ( /\ last'.op = "Reconcile" /\ last'.id = c
                  /\ last'.failed = "none"
                  /\ Materialized(nc[c])
                  /\ \A k \in Children(nc[c]) : dc[k].phase = Phase_ROLLBACK )
                  => (~last'.ok /\ ~last'.err)]_vars

\* C2's case: Reconcile(c) has just returned (false, nil) on a change in
\* (ROLLBACK, PENDING) that a later overlapping RUNNING change blocks.
C2_Witness ==
    \E c \in DOMAIN nc :
        /\ InRollbackPending(c)
        /\ \E f \in DOMAIN nc : f > c /\ isIntersectingChange(nc[c], nc[f])
                                      /\ nc[f].state = State_RUNNING
        /\ Reconciled(c) /\ ~last.ok /\ ~last.err /\ last.failed = "none"

\* C3: changeIndex is at most the Index of the lowest-indexed NetworkChange
\* that is PENDING or RUNNING.
C3_ChangeIndexLowerBound ==
    \A i \in DOMAIN nc : Active(nc[i]) => changeIndex <= i

C5_NoDuplicateDeviceChange ==
    \A i \in DOMAIN nc :
        Cardinality({k \in DOMAIN dc : dc[k].ncid = i}) <= Len(nc[i].changes)

\* C6: a Reconcile call that returns an error leaves both stores as they were
\* when it began.
C6_ErrorCommitsNothing ==
    (last.op = "Reconcile" /\ last.err) => ~last.wrote

\* C7: a Reconcile call in which a store Update failed returns an error.
C7_UpdateFailureSurfaces ==
    (last.op = "Reconcile" /\ last.failed = "Update") => last.err

\* C8: no Reconcile call changes the phase or the state of a NetworkChange that
\* is in (CHANGE, COMPLETE) or (ROLLBACK, COMPLETE).
C8_CompleteIsStable ==
    [][\A i \in DOMAIN nc :
          (nc[i].state = State_COMPLETE /\ last'.op = "Reconcile")
          => (nc'[i].phase = nc[i].phase /\ nc'[i].state = nc[i].state)]_vars

\* C8's case: Reconcile(i) has just run on a change that was already in
\* (ROLLBACK, COMPLETE), and wrote nothing.
C8_Witness ==
    \E i \in DOMAIN nc :
        /\ nc[i].phase = Phase_ROLLBACK /\ nc[i].state = State_COMPLETE
        /\ Reconciled(i) /\ last.ok /\ ~last.err /\ ~last.wrote

\* C9: a NetworkChange with a ref whose ID is empty is in (CHANGE, PENDING) in
\* the store; and the Reconcile call that creates DeviceChanges persists the
\* ids on the parent, returns (true, nil) and leaves the parent's phase and
\* state alone.
C9_MaterializeBeforeAdvance ==
    [][ /\ \A i \in DOMAIN nc' :
              ~Materialized(nc'[i])
              => (nc'[i].phase = Phase_CHANGE /\ nc'[i].state = State_PENDING)
        /\ (last'.op = "Reconcile" /\ Len(dc') > Len(dc))
              => /\ Materialized(nc'[last'.id])
                 /\ last'.ok /\ ~last'.err
                 /\ nc'[last'.id].phase = nc[last'.id].phase
                 /\ nc'[last'.id].state = nc[last'.id].state ]_vars

\* A NetworkChange in (CHANGE, RUNNING) with no PENDING child and a FAILED one.
PartlyFailed(i) ==
    /\ nc[i].phase = Phase_CHANGE /\ nc[i].state = State_RUNNING
    /\ Materialized(nc[i])
    /\ \A k \in Children(nc[i]) : dc[k].state # State_PENDING
    /\ \E k \in Children(nc[i]) : dc[k].state = State_FAILED

\* Reconcile has moved every not-FAILED child of i in the CHANGE phase to
\* (ROLLBACK, RUNNING).
RollbacksStarted(i) ==
    \A k \in Children(nc[i]) :
        (dc[k].phase = Phase_CHANGE /\ dc[k].state # State_FAILED)
        => (dc'[k].phase = Phase_ROLLBACK /\ dc'[k].state = State_RUNNING)

\* The reconciler sets i to (CHANGE, PENDING, ERROR) only with a FAILED child
\* and every other child in (ROLLBACK, COMPLETE).
RevertedOnlyWhenRolledBack(i) ==
    ( /\ last'.op = "Reconcile"
      /\ nc[i].state = State_RUNNING
      /\ nc'[i].phase = Phase_CHANGE /\ nc'[i].state = State_PENDING )
    => /\ nc'[i].reason = Reason_ERROR
       /\ \E k \in Children(nc[i]) : dc[k].state = State_FAILED
       /\ \A k \in Children(nc[i]) :
              dc[k].state # State_FAILED
              => (dc[k].phase = Phase_ROLLBACK /\ dc[k].state = State_COMPLETE)

DeviceIDs(c) == {c.changes[r].dev : r \in DOMAIN c.changes}

\* No NetworkChange with a lower Index that is PENDING or RUNNING shares a
\* DeviceID with c.
Unblocked(c) ==
    \A i \in DOMAIN nc :
        (i < c /\ Active(nc[i])) => DeviceIDs(nc[c]) \cap DeviceIDs(nc[i]) = {}

\* C13: a Reconcile(c) call in which no store call fails, on a c in
\* (CHANGE, PENDING) whose refs are all materialized and which no PENDING or
\* RUNNING change of lower Index shares a device with, sets c to RUNNING and
\* returns (true, nil), whatever earlier non-overlapping changes are still
\* PENDING or RUNNING.
C13_NonOverlappingAdmitted ==
    [][\A c \in DOMAIN nc :
          ( /\ nc[c].phase = Phase_CHANGE /\ nc[c].state = State_PENDING
            /\ Materialized(nc[c])
            /\ Unblocked(c)
            /\ last'.op = "Reconcile" /\ last'.id = c
            /\ last'.failed = "none" )
          => /\ nc'[c].phase = Phase_CHANGE /\ nc'[c].state = State_RUNNING
             /\ last'.ok /\ ~last'.err]_vars

\* C13's case: c has just been admitted while an earlier change that shares no
\* device with it is still PENDING or RUNNING.
C13_Witness ==
    \E c \in DOMAIN nc : \E i \in DOMAIN nc :
        /\ i < c /\ Active(nc[i]) /\ DeviceIDs(nc[c]) \cap DeviceIDs(nc[i]) = {}
        /\ Reconciled(c) /\ last.ok /\ ~last.err /\ last.wrote
        /\ last.failed = "none"
        /\ nc[c].phase = Phase_CHANGE /\ nc[c].state = State_RUNNING
        /\ \A k \in Children(nc[c]) : dc[k].state = State_PENDING

\* C14: for every NetworkChange c in (CHANGE, PENDING), canApplyChange gives
\* the same answer from the current changeIndex as from changeIndex = 0.
C14_ChangeIndexOnlyOptimisation ==
    \A c \in DOMAIN nc :
        (nc[c].phase = Phase_CHANGE /\ nc[c].state = State_PENDING)
        => canApplyChange(Start(nc, dc, changeIndex, 0), c, nc[c]).ok
             = canApplyChange(Start(nc, dc, 0, 0), c, nc[c]).ok

\* C17: the reconciler moves a NetworkChange from (CHANGE, RUNNING) to
\* (CHANGE, COMPLETE) only in a call that finds every ref materialized and
\* every child COMPLETE (so none PENDING, RUNNING or FAILED), and the children
\* of the change it completes are all COMPLETE afterwards.
C17_CompleteOnlyWhenChildrenComplete ==
    [][\A i \in DOMAIN nc :
          ( /\ nc[i].phase = Phase_CHANGE /\ nc[i].state = State_RUNNING
            /\ nc'[i].state = State_COMPLETE )
          => /\ last'.op = "Reconcile" /\ last'.id = i
             /\ nc'[i].phase = Phase_CHANGE
             /\ Materialized(nc[i])
             /\ \A k \in Children(nc[i]) :
                    dc[k].state = State_COMPLETE /\ dc'[k].state = State_COMPLETE]_vars

\* C17's case: Reconcile has just completed a NetworkChange with two children.
C17_Witness ==
    \E i \in DOMAIN nc :
        /\ Reconciled(i) /\ last.wrote /\ last.ok /\ ~last.err
        /\ nc[i].phase = Phase_CHANGE /\ nc[i].state = State_COMPLETE
        /\ Len(nc[i].changes) = 2
        /\ \A k \in Children(nc[i]) : dc[k].state = State_COMPLETE

\* C18: in the ROLLBACK phase (a) the parent moves from PENDING to RUNNING only
\* when every child has Phase = ROLLBACK; (b) a call that rewrites a child whose
\* Phase was not ROLLBACK to (ROLLBACK, PENDING) returns (true, nil) and leaves
\* the parent as it was; (c) the parent moves from RUNNING to COMPLETE only
\* when every child is (ROLLBACK, COMPLETE).
C18_RollbackOrdering ==
    [][\A i \in DOMAIN nc :
          nc[i].phase = Phase_ROLLBACK
          => /\ (nc[i].state = State_PENDING /\ nc'[i].state = State_RUNNING)
                  => \A k \in Children(nc[i]) : dc[k].phase = Phase_ROLLBACK
             /\ ( /\ last'.op = "Reconcile" /\ last'.id = i
                  /\ \E k \in Children(nc[i]) :
                         /\ dc[k].phase # Phase_ROLLBACK
                         /\ dc'[k].phase = Phase_ROLLBACK
                         /\ dc'[k].state = State_PENDING )
                  => (last'.ok /\ ~last'.err /\ nc'[i] = nc[i])
             /\ (nc[i].state = State_RUNNING /\ nc'[i].state = State_COMPLETE)
                  => \A k \in Children(nc[i]) :
                         dc[k].phase = Phase_ROLLBACK /\ dc[k].state = State_COMPLETE]_vars

\* C19: the RUNNING DeviceChanges of one device all belong to one
\* NetworkChange.
C19_DeviceMutualExclusion ==
    \A k1 \in DOMAIN dc : \A k2 \in DOMAIN dc :
        ( /\ dc[k1].state = State_RUNNING /\ dc[k2].state = State_RUNNING
          /\ dc[k1].dev = dc[k2].dev )
        => dc[k1].ncid = dc[k2].ncid

\* C11: under the queue's fairness, every NetworkChange that is PENDING, in
\* either phase, eventually is RUNNING.
C11_EventualAdmission ==
    \A j \in 1..MaxChanges :
        (j \in DOMAIN nc /\ nc[j].state = State_PENDING)
        ~> (j \in DOMAIN nc /\ nc[j].state = State_RUNNING)

\* C20: in a run where from some point on only Reconcile calls are made (no
\* operator write, no device-controller write), the stores change only finitely
\* many times.
C20_Quiescence ==
    (<>[][last'.op = "Reconcile"]_vars) => (<>[][nc' = nc /\ dc' = dc]_vars)

\* c is in (CHANGE, PENDING) and no earlier PENDING or RUNNING change shares a
\* device with it.
HappyStart(c) ==
    /\ c \in DOMAIN nc
    /\ nc[c].phase = Phase_CHANGE /\ nc[c].state = State_PENDING
    /\ Unblocked(c)

\* Every ref of c names a DeviceChange of c on the ref's device, and the store
\* holds no other DeviceChange of c.
OnePerRef(c) ==
    /\ \A r \in DOMAIN nc[c].changes :
           LET k == nc[c].changes[r].id
           IN  /\ k \in DOMAIN dc
               /\ dc[k].ncid = c /\ dc[k].dev = nc[c].changes[r].dev
    /\ Cardinality({k \in DOMAIN dc : dc[k].ncid = c}) = Len(nc[c].changes)

\* C12: on the happy path a NetworkChange in (CHANGE, PENDING) that no earlier
\* PENDING or RUNNING change overlaps eventually is RUNNING with every child
\* RUNNING, and eventually is (CHANGE, COMPLETE) with exactly one DeviceChange
\* per ref, all COMPLETE.
C12_HappyPath ==
    \A c \in 1..MaxChanges :
        /\ HappyStart(c)
             ~> ( /\ c \in DOMAIN nc
                  /\ nc[c].phase = Phase_CHANGE /\ nc[c].state = State_RUNNING
                  /\ OnePerRef(c)
                  /\ \A k \in Children(nc[c]) : dc[k].state = State_RUNNING )
        /\ HappyStart(c)
             ~> ( /\ c \in DOMAIN nc
                  /\ nc[c].phase = Phase_CHANGE /\ nc[c].state = State_COMPLETE
                  /\ OnePerRef(c)
                  /\ \A k \in Children(nc[c]) : dc[k].state = State_COMPLETE )

\* C12's case: Reconcile has just completed the second of two overlapping
\* NetworkChanges, each with one DeviceChange per ref.
C12_Witness ==
    /\ Len(nc) = 2 /\ Reconciled(2) /\ last.wrote
    /\ DeviceIDs(nc[1]) \cap DeviceIDs(nc[2]) # {}
    /\ \A c \in DOMAIN nc :
           /\ nc[c].phase = Phase_CHANGE /\ nc[c].state = State_COMPLETE
           /\ OnePerRef(c)

\* C16: a Reconcile call in which the Get of a DeviceChange named by a ref
\* returns no entity and no error ends with a requeue result (an error or
\* (false, nil)), writes nothing to either store and reads no field of the
\* missing entity.
C16_NotFoundRequeues ==
    (last.op = "Reconcile" /\ last.failed = "NotFound")
    => /\ ~last.panic
       /\ ~last.wrote
       /\ last.err \/ ~last.ok

\* C15: with two workers of the pool inside Reconcile for distinct ids,
\* changeIndex is never above the Index of a PENDING or RUNNING NetworkChange,
\* and no NetworkChange is admitted while an earlier change that shares a
\* device with it is PENDING or RUNNING.
C15_ChangeIndexRaceFree ==
    [][/\ \A i \in DOMAIN nc' : Active(nc'[i]) => changeIndex' <= i
       /\ \A i \in DOMAIN nc : \A j \in DOMAIN nc :
              ( /\ i < j
                /\ DeviceIDs(nc[i]) \cap DeviceIDs(nc[j]) # {}
                /\ nc[j].state = State_PENDING
                /\ nc'[j].state = State_RUNNING )
              => ~Active(nc[i])]_vars
====
